---------------------------- MODULE Spec2Model ----------------------------
(***************************************************************************)
(* The position ledger of zipline/finance/position.py: one Position, the   *)
(* operations that mutate it (update, update_exit_prices, handle_split,    *)
(* adjust_commission_cost_basis) and the ones that read it.                *)
(*                                                                         *)
(* Numbers.  The program computes with Python floats.  The model computes  *)
(* with exact rationals <<n, d>>, d > 0, in lowest terms; the optional     *)
(* arguments' None is the pair <<0, 0>>.  Negative zero is not modelled:   *)
(* no input is a negative zero and x + (-x) is +0.0, so copysign(1, 0.0)   *)
(* is 1 wherever the model evaluates it.                                   *)
(***************************************************************************)
EXTENDS Integers, Sequences, FiniteSets, TLC

---------------------------------------------------------------------------
(* Rational arithmetic *)

Abs(i) == IF i < 0 THEN -i ELSE i

RECURSIVE GCD(_, _)
GCD(a, b) == IF b = 0 THEN a ELSE GCD(b, a % b)

Norm(n, d) == LET g == GCD(Abs(n), d) IN <<n \div g, d \div g>>

Q(n) == <<n, 1>>
Zero == Q(0)
None == <<0, 0>>

RNeg(a) == <<-a[1], a[2]>>
RAbs(a) == <<Abs(a[1]), a[2]>>
RAdd(a, b) ==
    LET g == GCD(a[2], b[2])
    IN  Norm(a[1] * (b[2] \div g) + b[1] * (a[2] \div g), (a[2] \div g) * b[2])
RMul(a, b) ==
    LET g1 == GCD(Abs(a[1]), b[2])
        g2 == GCD(Abs(b[1]), a[2])
    IN  IF a[1] = 0 \/ b[1] = 0 THEN Zero
        ELSE <<(a[1] \div g1) * (b[1] \div g2), (a[2] \div g2) * (b[2] \div g1)>>
RInv(a) == IF a[1] < 0 THEN <<-a[2], -a[1]>> ELSE <<a[2], a[1]>>
RDiv(a, b) == RMul(a, RInv(b))
RLt(a, b) ==
    LET g == GCD(a[2], b[2])
    IN  a[1] * (b[2] \div g) < b[1] * (a[2] \div g)
RGt(a, b) == RLt(b, a)
RLe(a, b) == ~RLt(b, a)
RGe(a, b) == ~RLt(a, b)

\* floor of a rational, as an integer
FloorInt(a) == a[1] \div a[2]

\* Python 3 round(x, 2) on the exact value: nearest hundredth, ties to even
round2(x) ==
    LET y == RMul(x, Q(100))
        f == FloorInt(y)
        twice == 2 * (y[1] - f * y[2])
        k == IF twice < y[2] THEN f
             ELSE IF twice > y[2] THEN f + 1
             ELSE IF f % 2 = 0 THEN f ELSE f + 1
    IN  Norm(k, 100)

\* math.copysign(1, x)
copysign1(x) == IF x[1] < 0 THEN Q(-1) ELSE Q(1)

---------------------------------------------------------------------------
(* Assets, and the tick quantizer of zipline.finance.execution *)

NoError == "none"
NoDate == 0

Equity == [sid |-> 1, tick_size |-> <<1, 100>>, is_future |-> FALSE,
           price_multiplier |-> Q(1)]
Future == [sid |-> 2, tick_size |-> <<1, 100>>, is_future |-> TRUE,
           price_multiplier |-> Q(5)]
Assets == {Equity, Future}

\* Rounds to a tick; within 5% of a tick above a tick boundary (prefer down)
\* or below one (prefer up) the boundary wins.  A result of zero is 0.0.
asymmetric_round_price(price, prefer_round_down, tick_size) ==
    LET x == RDiv(price, tick_size)
        k == IF prefer_round_down
             THEN FloorInt(RAdd(x, <<1, 20>>))
             ELSE -FloorInt(RAdd(RNeg(x), <<1, 20>>))
    IN  RMul(tick_size, Q(k))

---------------------------------------------------------------------------
(* The Position object: its fields as a record, its methods as operators   *)
(* from the object (and the arguments) to the object after the call, the   *)
(* exception raised (NoError when it returns) and the value returned.      *)

Position(a) ==
    [asset |-> a, amount |-> Zero, cost_basis |-> Zero,
     last_sale_price |-> Zero, last_sale_date |-> NoDate,
     take_profit_price |-> Zero, stop_loss_price |-> Zero]

Returns(p, v) == [pos |-> p, raised |-> NoError, ret |-> v]
Raises(p, e) == [pos |-> p, raised |-> e, ret |-> <<>>]

\* the amount below which update treats the resulting total as flat
Eps == <<1, 1000>>

update_exit_prices(self, take_profit_price, stop_loss_price, amount_arg, last_sale_price) ==
    LET amt == IF amount_arg = None THEN self.amount ELSE amount_arg
        resulting_direction == copysign1(amt)
        tpRaises ==
            /\ take_profit_price # None
            /\ self.take_profit_price # Zero
            /\ last_sale_price # None
            /\ RLt(RMul(resulting_direction, take_profit_price),
                   RMul(resulting_direction, last_sale_price))
        s1 == IF take_profit_price # None
              THEN [self EXCEPT !.take_profit_price =
                       asymmetric_round_price(take_profit_price, ~RGt(amt, Zero),
                                              self.asset.tick_size)]
              ELSE self
        slRaises ==
            /\ stop_loss_price # None
            /\ s1.stop_loss_price # Zero
            /\ last_sale_price # None
            /\ RGt(RMul(resulting_direction, stop_loss_price),
                   RMul(resulting_direction, last_sale_price))
        s2 == IF stop_loss_price # None
              THEN [s1 EXCEPT !.stop_loss_price =
                       asymmetric_round_price(stop_loss_price, RGt(amt, Zero),
                                              self.asset.tick_size)]
              ELSE s1
    IN  IF tpRaises THEN Raises(self, "ValueError")
        ELSE IF slRaises THEN Raises(s1, "ValueError")
        ELSE Returns(s2, <<>>)

\* closed, forgetting the exit prices of the position it closes
closed_keeping_exit_prices(self, total_shares) ==
    [self EXCEPT !.cost_basis = Zero, !.amount = total_shares]

\* closed, dropping the residue of the total
closed_to_zero(self, total_shares) ==
    [self EXCEPT !.cost_basis = Zero,
                 !.take_profit_price = Zero,
                 !.stop_loss_price = Zero,
                 !.amount = Zero]

\* update, lines 150-153: the total is within Eps of zero
closed(self, total_shares) ==
    [self EXCEPT !.cost_basis = Zero,
                 !.take_profit_price = Zero,
                 !.stop_loss_price = Zero,
                 !.amount = total_shares]

\* basis_after, adding the transaction's price instead of its cost
basis_after_unweighted(self, txn, total_shares) ==
    LET prev_direction == copysign1(self.amount)
        txn_direction == copysign1(txn.amount)
    IN  IF prev_direction # txn_direction
        THEN IF RGt(RAbs(txn.amount), RAbs(self.amount))
             THEN txn.price
             ELSE self.cost_basis
        ELSE RDiv(RAdd(RMul(self.cost_basis, self.amount), txn.price),
                  total_shares)

\* basis_after, taking the transaction's price on every cover
basis_after_rebasing_cover(self, txn, total_shares) ==
    LET prev_direction == copysign1(self.amount)
        txn_direction == copysign1(txn.amount)
    IN  IF prev_direction # txn_direction
        THEN txn.price
        ELSE RDiv(RAdd(RMul(self.cost_basis, self.amount),
                       RMul(txn.amount, txn.price)),
                  total_shares)

\* update, lines 155-168: the cost basis of a total that is not flat
basis_after(self, txn, total_shares) ==
    LET prev_direction == copysign1(self.amount)
        txn_direction == copysign1(txn.amount)
    IN  IF prev_direction # txn_direction
        THEN IF RGt(RAbs(txn.amount), RAbs(self.amount))
             THEN txn.price
             ELSE self.cost_basis
        ELSE LET prev_cost == RMul(self.cost_basis, self.amount)
                 txn_cost == RMul(txn.amount, txn.price)
                 total_cost == RAdd(prev_cost, txn_cost)
             IN  RDiv(total_cost, total_shares)

\* update, lines 172-174: the last sale follows a strictly later transaction
last_sale_after(self, txn) ==
    IF self.last_sale_date = NoDate \/ txn.dt > self.last_sale_date
    THEN [self EXCEPT !.last_sale_price = txn.price,
                      !.last_sale_date = txn.dt]
    ELSE self

\* exit_prices_after, for the direction the position has before the merge
exit_prices_after_from_held_amount(self, txn, total_shares) ==
    update_exit_prices(self, txn.take_profit_price, txn.stop_loss_price,
                       self.amount, self.last_sale_price)

\* update, lines 177-179: the transaction's exit prices, for the total and
\* the last sale price the position has by then
exit_prices_after(self, txn, total_shares) ==
    update_exit_prices(self, txn.take_profit_price, txn.stop_loss_price,
                       total_shares, self.last_sale_price)

update(self, txn) ==
    LET total_shares == RAdd(self.amount, txn.amount)
        s1 == [self EXCEPT !.cost_basis = basis_after(self, txn, total_shares)]
        s2 == last_sale_after(s1, txn)
        r == exit_prices_after(s2, txn, total_shares)
    IN  IF self.asset # txn.asset THEN Raises(self, "Exception")
        ELSE IF RLt(RAbs(total_shares), Eps)
        THEN Returns(closed(self, total_shares), <<>>)
        ELSE IF r.raised # NoError THEN r
        ELSE Returns([r.pos EXCEPT !.amount = total_shares], <<>>)

\* split_shares, valuing the fractional share at the cost basis before
\* the split
split_shares_cash_at_old_basis(self, ratio) ==
    LET raw_share_count == RDiv(self.amount, ratio)
        full_share_count == Q(FloorInt(raw_share_count))
        fractional_share_count == RAdd(raw_share_count, RNeg(full_share_count))
        return_cash == round2(RMul(fractional_share_count, self.cost_basis))
    IN  Returns(
            [self EXCEPT
                !.cost_basis = round2(RMul(self.cost_basis, ratio)),
                !.amount = full_share_count,
                !.take_profit_price =
                    IF @ # Zero THEN round2(RMul(@, ratio)) ELSE @,
                !.stop_loss_price =
                    IF @ # Zero THEN round2(RMul(@, ratio)) ELSE @],
            <<return_cash>>)

\* handle_split, lines 114-141: the body after the asset check
split_shares(self, ratio) ==
    LET raw_share_count == RDiv(self.amount, ratio)
        full_share_count == Q(FloorInt(raw_share_count))
        fractional_share_count == RAdd(raw_share_count, RNeg(full_share_count))
        new_cost_basis == round2(RMul(self.cost_basis, ratio))
        return_cash == round2(RMul(fractional_share_count, new_cost_basis))
    IN  Returns(
            [self EXCEPT
                !.cost_basis = new_cost_basis,
                !.amount = full_share_count,
                !.take_profit_price =
                    IF @ # Zero THEN round2(RMul(@, ratio)) ELSE @,
                !.stop_loss_price =
                    IF @ # Zero THEN round2(RMul(@, ratio)) ELSE @],
            <<return_cash>>)

\* handle_split without its asset check
handle_split_unchecked(self, asset_arg, ratio) == split_shares(self, ratio)

handle_split(self, asset_arg, ratio) ==
    IF self.asset # asset_arg THEN Raises(self, "Exception")
    ELSE split_shares(self, ratio)

\* adjust_commission_cost_basis, charging a Future the cost undivided
adjust_commission_ignoring_multiplier(self, asset_arg, cost) ==
    IF asset_arg # self.asset THEN Raises(self, "Exception")
    ELSE IF cost = Zero THEN Returns(self, <<>>)
    ELSE IF self.amount = Zero THEN Returns(self, <<>>)
    ELSE Returns([self EXCEPT !.cost_basis =
                     RDiv(RAdd(RMul(self.cost_basis, self.amount), cost),
                          self.amount)], <<>>)

adjust_commission_cost_basis(self, asset_arg, cost) ==
    LET prev_cost == RMul(self.cost_basis, self.amount)
        cost_to_use == IF asset_arg.is_future
                       THEN RDiv(cost, asset_arg.price_multiplier)
                       ELSE cost
        new_cost == RAdd(prev_cost, cost_to_use)
    IN  IF asset_arg # self.asset THEN Raises(self, "Exception")
        ELSE IF cost = Zero THEN Returns(self, <<>>)
        ELSE IF self.amount = Zero THEN Returns(self, <<>>)
        ELSE Returns([self EXCEPT !.cost_basis = RDiv(new_cost, self.amount)], <<>>)

\* Order(dt, asset, amount, stop=..., limit=...); `x or None` is x for x # 0
Order(dt, a, amt, stop, limit) ==
    [dt |-> dt, asset |-> a, amount |-> amt, stop |-> stop, limit |-> limit]

\* get_exit_orders, merging both levels into one stop-limit order
get_exit_orders_stop_limit(self) ==
    IF self.stop_loss_price # Zero /\ self.take_profit_price # Zero
    THEN Returns(self, <<Order(self.last_sale_date, self.asset, RNeg(self.amount),
                               self.stop_loss_price, self.take_profit_price)>>)
    ELSE IF self.stop_loss_price # Zero
    THEN Returns(self, <<Order(self.last_sale_date, self.asset, RNeg(self.amount),
                               self.stop_loss_price, None)>>)
    ELSE IF self.take_profit_price # Zero
    THEN Returns(self, <<Order(self.last_sale_date, self.asset, RNeg(self.amount),
                               None, self.take_profit_price)>>)
    ELSE Returns(self, <<>>)

get_exit_orders(self) ==
    LET stops == IF self.stop_loss_price # Zero
                 THEN <<Order(self.last_sale_date, self.asset, RNeg(self.amount),
                              self.stop_loss_price, None)>>
                 ELSE <<>>
        limits == IF self.take_profit_price # Zero
                  THEN <<Order(self.last_sale_date, self.asset, RNeg(self.amount),
                               None, self.take_profit_price)>>
                  ELSE <<>>
    IN  Returns(self, stops \o limits)

earn_dividend(self, dividend_amount) ==
    Returns(self, <<RMul(self.amount, dividend_amount)>>)

\* earn_stock_dividend, truncating the share count toward zero
earn_stock_dividend_truncating(self, payment_asset, ratio) ==
    LET x == RMul(self.amount, ratio)
        k == IF x[1] < 0 THEN -FloorInt(RNeg(x)) ELSE FloorInt(x)
    IN  Returns(self, <<[payment_asset |-> payment_asset, share_count |-> Q(k)]>>)

earn_stock_dividend(self, payment_asset, ratio) ==
    Returns(self, <<[payment_asset |-> payment_asset,
                     share_count |-> Q(FloorInt(RMul(self.amount, ratio)))]>>)

---------------------------------------------------------------------------
(* Order rounding, zipline/finance/rounding.py *)

\* Python 3 round(a): the nearest integer, ties to even
RoundInt(a) ==
    LET f == FloorInt(a)
        twice == 2 * (a[1] - f * a[2])
    IN  IF twice < a[2] THEN f
        ELSE IF twice > a[2] THEN f + 1
        ELSE IF f % 2 = 0 THEN f ELSE f + 1

\* int(a): toward zero
TruncInt(a) == IF a[1] < 0 THEN -FloorInt(RNeg(a)) ELSE FloorInt(a)

\* zipline.utils.math_utils.round_if_near_integer(a, epsilon=1e-4): the
\* nearest integer when a is within epsilon of it, else a
round_if_near_integer(a) ==
    IF RLe(RAbs(RAdd(a, RNeg(Q(RoundInt(a))))), <<1, 10000>>)
    THEN Q(RoundInt(a))
    ELSE a

FullSharesRounding == [cls |-> "FullSharesRounding", precision |-> None]
FractionalSharesRounding(precision) ==
    [cls |-> "FractionalSharesRounding", precision |-> precision]

FullSharesRounding_round_order(amount_arg) ==
    Q(TruncInt(round_if_near_integer(amount_arg)))

\* FractionalSharesRounding.round_order, not scaling the count back
FractionalSharesRounding_round_order_unscaled(precision, amount_arg) ==
    Q(TruncInt(round_if_near_integer(RDiv(amount_arg, precision))))

FractionalSharesRounding_round_order(precision, amount_arg) ==
    RMul(Q(TruncInt(round_if_near_integer(RDiv(amount_arg, precision)))),
         precision)

round_order(policy, amount_arg) ==
    IF policy.cls = "FullSharesRounding"
    THEN FullSharesRounding_round_order(amount_arg)
    ELSE FractionalSharesRounding_round_order(policy.precision, amount_arg)

---------------------------------------------------------------------------
(* The state machine: one Position driven by its callers *)

VARIABLES
    asset, amount, cost_basis, last_sale_price, last_sale_date,
    take_profit_price, stop_loss_price,  \* the fields of the Position
    call,      \* the last call made on the position: method and arguments
    before,    \* the fields when that call was made
    raised,    \* the exception that call raised, NoError if it returned
    ret,       \* the value that call returned, as a sequence
    nops       \* the number of calls made so far

fields == <<asset, amount, cost_basis, last_sale_price, last_sale_date,
            take_profit_price, stop_loss_price>>
vars == <<fields, call, before, raised, ret, nops>>

\* the longest sequence of calls the model explores
MaxOps == 2

\* the inputs the callers draw from
TxnAmounts == {Q(4), Q(-2), Q(-4), Q(-6), <<1, 2000>>}
TxnPrices == {Q(10), Q(20)}
Dates == {1, 2}
\* <<take_profit_price, stop_loss_price>> as a caller gives them: none, a
\* bracket around every price for a long and for a short position, and a
\* level between the prices that is not on a tick
ExitLevels ==
    {<<None, None>>, <<Q(25), Q(5)>>, <<Q(5), Q(25)>>,
     <<<<15004, 1000>>, <<15004, 1000>>>>}
SplitRatios == {Q(3), Q(5), <<1, 2>>}
CommissionCosts == {Zero, Q(10)}
DividendAmounts == {<<1, 2>>}
StockDividendRatios == {<<1, 3>>}

Transaction(a, amt, dt, price, tp, sl) ==
    [asset |-> a, amount |-> amt, dt |-> dt, price |-> price,
     take_profit_price |-> tp, stop_loss_price |-> sl]

\* the transactions for the asset held, and one for each other asset
Transactions(held) ==
    {Transaction(held, amt, dt, price, x[1], x[2]) :
        amt \in TxnAmounts, dt \in Dates, price \in TxnPrices, x \in ExitLevels}
    \cup {Transaction(a, Q(4), 1, Q(10), None, None) : a \in Assets \ {held}}

Self ==
    [asset |-> asset, amount |-> amount, cost_basis |-> cost_basis,
     last_sale_price |-> last_sale_price, last_sale_date |-> last_sale_date,
     take_profit_price |-> take_profit_price,
     stop_loss_price |-> stop_loss_price]

Call(op, args) == [op |-> op, args |-> args]

\* a call: the object becomes what the method left, returning or raising
Invoke(c, result) ==
    LET r == result
    IN
    /\ nops' = nops + 1
    /\ call' = c
    /\ before' = Self
    /\ raised' = r.raised
    /\ ret' = r.ret
    /\ asset' = r.pos.asset
    /\ amount' = r.pos.amount
    /\ cost_basis' = r.pos.cost_basis
    /\ last_sale_price' = r.pos.last_sale_price
    /\ last_sale_date' = r.pos.last_sale_date
    /\ take_profit_price' = r.pos.take_profit_price
    /\ stop_loss_price' = r.pos.stop_loss_price

Init ==
    /\ \E a \in Assets :
        /\ asset = a
        /\ before = Position(a)
    /\ amount = Zero
    /\ cost_basis = Zero
    /\ last_sale_price = Zero
    /\ last_sale_date = NoDate
    /\ take_profit_price = Zero
    /\ stop_loss_price = Zero
    /\ call = Call("__init__", <<>>)
    /\ raised = NoError
    /\ ret = <<>>
    /\ nops = 0

Update ==
    /\ nops < MaxOps
    /\ \E txn \in Transactions(asset) :
        Invoke(Call("update", <<txn>>), update(Self, txn))

\* the caller passes no amount, and either no last_sale_price or the
\* position's own
UpdateExitPrices ==
    /\ nops < MaxOps
    /\ \E x \in ExitLevels, lsp \in {None, last_sale_price} :
        Invoke(Call("update_exit_prices", <<x[1], x[2], None, lsp>>),
               update_exit_prices(Self, x[1], x[2], None, lsp))

HandleSplit ==
    /\ nops < MaxOps
    /\ \E a \in Assets, ratio \in SplitRatios :
        Invoke(Call("handle_split", <<a, ratio>>), handle_split(Self, a, ratio))

AdjustCommissionCostBasis ==
    /\ nops < MaxOps
    /\ \E a \in Assets, cost \in CommissionCosts :
        Invoke(Call("adjust_commission_cost_basis", <<a, cost>>),
               adjust_commission_cost_basis(Self, a, cost))

GetExitOrders ==
    /\ nops < MaxOps
    /\ Invoke(Call("get_exit_orders", <<>>), get_exit_orders(Self))

EarnDividend ==
    /\ nops < MaxOps
    /\ \E d \in DividendAmounts :
        Invoke(Call("earn_dividend", <<d>>), earn_dividend(Self, d))

EarnStockDividend ==
    /\ nops < MaxOps
    /\ \E a \in Assets, ratio \in StockDividendRatios :
        Invoke(Call("earn_stock_dividend", <<a, ratio>>),
               earn_stock_dividend(Self, a, ratio))

Next ==
    \/ Update
    \/ UpdateExitPrices
    \/ HandleSplit
    \/ AdjustCommissionCostBasis
    \/ GetExitOrders
    \/ EarnDividend
    \/ EarnStockDividend

Spec == Init /\ [][Next]_vars

---------------------------------------------------------------------------
(* The order-construction layer: a rounding policy applied to a quantity,  *)
(* and to a quantity it has rounded already                                *)

RoundingPolicies ==
    {FullSharesRounding, FractionalSharesRounding(<<1, 100>>),
     FractionalSharesRounding(<<1, 4>>)}

\* hundredths, each also just off its value: by 1e-6, by 5e-5 and by 3e-3
Quantities ==
    {RAdd(<<b, 100>>, d) :
        b \in {-250, -200, -199, -101, -100, -37, -1, 0, 1, 37, 99, 100, 101,
               199, 200, 250},
        d \in {Zero, <<1, 1000000>>, <<-1, 1000000>>, <<1, 20000>>,
               <<-1, 20000>>, <<3, 1000>>, <<-3, 1000>>}}

InitRounding ==
    /\ \E policy \in RoundingPolicies : call = Call("__init__", <<policy>>)
    /\ asset = Equity
    /\ before = Position(Equity)
    /\ amount = Zero
    /\ cost_basis = Zero
    /\ last_sale_price = Zero
    /\ last_sale_date = NoDate
    /\ take_profit_price = Zero
    /\ stop_loss_price = Zero
    /\ raised = NoError
    /\ ret = <<>>
    /\ nops = 0

Rounded(policy, q) ==
    /\ nops' = nops + 1
    /\ call' = Call("round_order", <<policy, q>>)
    /\ ret' = <<round_order(policy, q)>>
    /\ UNCHANGED <<fields, before, raised>>

\* a requested quantity is rounded
RoundOrder ==
    /\ nops = 0
    /\ \E q \in Quantities : Rounded(call.args[1], q)

\* the rounded quantity is rounded again
RoundOrderAgain ==
    /\ nops = 1
    /\ Rounded(call.args[1], ret[1])

NextRounding ==
    \/ RoundOrder
    \/ RoundOrderAgain

SpecRounding == InitRounding /\ [][NextRounding]_vars

---------------------------------------------------------------------------
(* Properties *)

Long(x) == RGt(x, Zero)
Short(x) == RLt(x, Zero)
Is(op) == call.op = op
Returned == raised = NoError
Unchanged == Self = before

\* the asset a call names: the transaction's for update
ArgAsset == IF Is("update") THEN call.args[1].asset ELSE call.args[1]

\* C1: in every reachable state, a position with amount 0 has cost basis 0
\* and neither exit price set.
C1_FlatMeansCleared ==
    amount = Zero =>
        /\ cost_basis = Zero
        /\ take_profit_price = Zero
        /\ stop_loss_price = Zero

\* C2: when update or update_exit_prices raises for an exit price on the
\* wrong side of the last trade price, every field is as before the call.
C2_RejectedExitPriceLeavesPosition ==
    ((Is("update") \/ Is("update_exit_prices")) /\ raised = "ValueError")
        => Unchanged

\* C3: update, handle_split and adjust_commission_cost_basis called for an
\* asset other than the position's raise and leave every field unchanged.
C3_AssetMismatchRejected ==
    ((Is("update") \/ Is("handle_split") \/ Is("adjust_commission_cost_basis"))
        /\ ArgAsset # before.asset)
        => (raised = "Exception" /\ Unchanged)

\* a split for another asset reached a position that holds shares and has
\* exit prices set
C3_Witness ==
    /\ Is("handle_split")
    /\ ArgAsset # before.asset
    /\ before.amount # Zero
    /\ before.take_profit_price # Zero
    /\ raised = "Exception"

\* C4: a successful update whose transaction brings the total within 1e-3
\* of zero leaves cost basis and both exit prices 0, whatever exit prices
\* the transaction carries.
C4_FlattenClears ==
    (Is("update") /\ Returned
        /\ RLt(RAbs(RAdd(before.amount, call.args[1].amount)), Eps))
        => /\ cost_basis = Zero
           /\ take_profit_price = Zero
           /\ stop_loss_price = Zero

\* a position with a cost basis and exit prices was closed by a transaction
\* that carried exit prices of its own
C4_Witness ==
    /\ Is("update") /\ Returned
    /\ before.amount # Zero
    /\ before.cost_basis # Zero
    /\ before.take_profit_price # Zero
    /\ before.stop_loss_price # Zero
    /\ call.args[1].take_profit_price # None
    /\ call.args[1].stop_loss_price # None
    /\ amount = Zero

\* C5: on a long position whose last sale price L comes from a trade,
\* update_exit_prices given L to validate against raises for a take-profit below L and for a stop-loss
\* above L, and returns for a take-profit >= L with a stop-loss <= L,
\* whether or not an exit price is set already.
C5_LongExitPriceValidated ==
    (Is("update_exit_prices") /\ Long(before.amount)
        /\ before.last_sale_date # NoDate /\ call.args[4] # None)
        => LET tp == call.args[1]
               sl == call.args[2]
               L == before.last_sale_price
               bad == \/ (tp # None /\ RLt(tp, L))
                      \/ (sl # None /\ RGt(sl, L))
           IN  IF bad THEN raised = "ValueError" ELSE Returned

\* the transaction's and the position's amounts, by sign
Txn == call.args[1]
Adds == \/ (Long(before.amount) /\ Long(Txn.amount))
        \/ (Short(before.amount) /\ Short(Txn.amount))
Covers == \/ (Long(before.amount) /\ Short(Txn.amount))
          \/ (Short(before.amount) /\ Long(Txn.amount))
Total == RAdd(before.amount, Txn.amount)
Merged == Is("update") /\ Returned /\ ~RLt(RAbs(Total), Eps)

\* C6: a merged transaction of the position's sign, to a total not within
\* 1e-3 of zero, leaves cost_basis = (cost_basis * amount + transaction
\* amount * price) / total; a first fill on a flat position opens it at the
\* fill's price.
C6_SameSignAveragesCost ==
    /\ (Merged /\ Adds) =>
           /\ amount = Total
           /\ cost_basis =
                  RDiv(RAdd(RMul(before.cost_basis, before.amount),
                            RMul(Txn.amount, Txn.price)), Total)
    /\ (Merged /\ before.amount = Zero) =>
           /\ amount = Txn.amount
           /\ cost_basis = Txn.price

\* 4 bought at 10, then 4 more at 20: 8 held at 15
C6_Witness ==
    /\ Merged /\ Adds
    /\ before.amount = Q(4) /\ before.cost_basis = Q(10)
    /\ Txn.amount = Q(4) /\ Txn.price = Q(20)
    /\ amount = Q(8) /\ cost_basis = Q(15)

\* C7: a merged transaction of the opposite sign, to a total not within 1e-3
\* of zero, sets cost_basis to its price when it is larger than the position
\* (a reversal) and leaves cost_basis alone otherwise (a partial cover).
C7_CoverKeepsReversalResets ==
    (Merged /\ Covers) =>
        /\ amount = Total
        /\ IF RGt(RAbs(Txn.amount), RAbs(before.amount))
           THEN cost_basis = Txn.price
           ELSE cost_basis = before.cost_basis

\* 4 held at 10, then 6 sold at 20: 2 short at 20
C7_Witness ==
    /\ Merged /\ Covers
    /\ before.amount = Q(4) /\ before.cost_basis = Q(10)
    /\ Txn.amount = Q(-6) /\ Txn.price = Q(20)
    /\ amount = Q(-2) /\ cost_basis = Q(20)

\* C8: adjust_commission_cost_basis for the position's asset changes nothing
\* when cost or amount is 0, and otherwise only cost_basis, to (cost_basis *
\* amount + c) / amount with c = cost / price_multiplier for a Future and
\* cost otherwise: up for a long, down for a short position when cost > 0.
C8_CommissionSpreadsOverShares ==
    (Is("adjust_commission_cost_basis") /\ ArgAsset = before.asset) =>
        LET cost == call.args[2]
            c == IF before.asset.is_future
                 THEN RDiv(cost, before.asset.price_multiplier)
                 ELSE cost
            expected == RDiv(RAdd(RMul(before.cost_basis, before.amount), c),
                             before.amount)
        IN  /\ Returned
            /\ IF cost = Zero \/ before.amount = Zero
               THEN Unchanged
               ELSE /\ Self = [before EXCEPT !.cost_basis = expected]
                    /\ (Long(cost) /\ Long(before.amount))
                           => RGt(cost_basis, before.cost_basis)
                    /\ (Long(cost) /\ Short(before.amount))
                           => RLt(cost_basis, before.cost_basis)

\* a Future, 4 long at 20, charged 10 with multiplier 5: cost basis 20.5
C8_Witness ==
    /\ Is("adjust_commission_cost_basis") /\ ArgAsset = before.asset
    /\ before.asset.is_future
    /\ before.amount = Q(4) /\ before.cost_basis = Q(20)
    /\ call.args[2] = Q(10)
    /\ cost_basis = <<41, 2>>

\* a whole number of hundredths
IsCents(x) == 100 % x[2] = 0
\* x is y to the nearest hundredth
NearestCent(x, y) ==
    /\ IsCents(x)
    /\ RLe(RAbs(RAdd(x, RNeg(y))), <<1, 200>>)

\* C9: handle_split for the position's asset sets amount to floor(amount /
\* ratio), cost_basis to cost_basis * ratio to the nearest hundredth, and
\* returns the fractional share (amount / ratio - floor) times the new cost
\* basis to the nearest hundredth.
C9_SplitFloorsSharesAndCashesResidue ==
    (Is("handle_split") /\ ArgAsset = before.asset) =>
        LET ratio == call.args[2]
            raw == RDiv(before.amount, ratio)
        IN  /\ Returned
            /\ amount[2] = 1
            /\ RLe(amount, raw)
            /\ RLt(raw, RAdd(amount, Q(1)))
            /\ NearestCent(cost_basis, RMul(before.cost_basis, ratio))
            /\ Len(ret) = 1
            /\ NearestCent(ret[1], RMul(RAdd(raw, RNeg(amount)), cost_basis))

\* 4 shares at 10 split 3 for 1: 1 share at 30 and 10.00 in cash
C9_Witness ==
    /\ Is("handle_split") /\ ArgAsset = before.asset
    /\ before.amount = Q(4) /\ before.cost_basis = Q(10)
    /\ call.args[2] = Q(3)
    /\ amount = Q(1) /\ cost_basis = Q(30) /\ ret = <<Q(10)>>

\* C10: get_exit_orders returns one stop order (stop = stop_loss_price, no
\* limit) iff stop_loss_price # 0 and one limit order (limit =
\* take_profit_price, no stop) iff take_profit_price # 0, nothing else, each
\* for -amount, and changes no field.
C10_ExitOrdersPerLevel ==
    Is("get_exit_orders") =>
        LET IsStop(o) == o.stop = stop_loss_price /\ o.limit = None
            IsLimit(o) == o.limit = take_profit_price /\ o.stop = None
            n(P(_)) == Cardinality({i \in 1..Len(ret) : P(ret[i])})
        IN  /\ Returned /\ Unchanged
            /\ n(IsStop) = (IF stop_loss_price # Zero THEN 1 ELSE 0)
            /\ n(IsLimit) = (IF take_profit_price # Zero THEN 1 ELSE 0)
            /\ Len(ret) = n(IsStop) + n(IsLimit)
            /\ \A i \in 1..Len(ret) : ret[i].amount = RNeg(amount)

\* both levels set on a position that holds shares: two orders
C10_Witness ==
    /\ Is("get_exit_orders")
    /\ amount # Zero
    /\ stop_loss_price # Zero /\ take_profit_price # Zero
    /\ Len(ret) = 2

\* C11: after every successful update of a position that holds shares,
\* flattening or not, a transaction dated strictly later than last_sale_date
\* (or the first one) has set last_sale_price and last_sale_date; any other
\* has left both alone.
C11_LastSaleFollowsLatestTransaction ==
    (Is("update") /\ Returned /\ ~RLt(RAbs(before.amount), Eps)) =>
        IF before.last_sale_date = NoDate \/ Txn.dt > before.last_sale_date
        THEN last_sale_price = Txn.price /\ last_sale_date = Txn.dt
        ELSE /\ last_sale_price = before.last_sale_price
             /\ last_sale_date = before.last_sale_date

\* C12: earn_dividend and earn_stock_dividend change no field; the first
\* returns amount * the dividend's amount, the second the payment asset with
\* floor(amount * ratio) shares, of the amount held when called.
C12_DividendsReadOnly ==
    /\ Is("earn_dividend") =>
           /\ Returned /\ Unchanged
           /\ ret = <<RMul(before.amount, call.args[1])>>
    /\ Is("earn_stock_dividend") =>
           LET x == RMul(before.amount, call.args[2])
               n == ret[1].share_count
           IN  /\ Returned /\ Unchanged
               /\ Len(ret) = 1
               /\ ret[1].payment_asset = call.args[1]
               /\ n[2] = 1
               /\ RLe(n, x)
               /\ RLt(x, RAdd(n, Q(1)))

\* a short position of 4 earns floor(-4/3) = -2 shares of a stock dividend
C12_Witness ==
    /\ Is("earn_stock_dividend")
    /\ before.amount = Q(-4)
    /\ call.args[2] = <<1, 3>>
    /\ ret[1].share_count = Q(-2)
    /\ Unchanged

\* C13: round_order of a quantity round_order has returned is that quantity,
\* for FullSharesRounding and for FractionalSharesRounding at a fixed
\* precision.
C13_RoundOrderIdempotent ==
    (Is("round_order") /\ nops = 2) => ret = <<call.args[2]>>

\* 1.99 (from 1.99 or from 1.993) stays 1.99 at precision 0.01
C13_Witness ==
    /\ Is("round_order") /\ nops = 2
    /\ call.args[1] = FractionalSharesRounding(<<1, 100>>)
    /\ call.args[2] = <<199, 100>>
    /\ ret = <<<<199, 100>>>>

\* the levels set are on the protective side of price for a position of amt
ExitLevelsProtect(amt, tp, sl, price) ==
    /\ (Long(amt) /\ tp # Zero) => RGe(tp, price)
    /\ (Long(amt) /\ sl # Zero) => RLe(sl, price)
    /\ (Short(amt) /\ tp # Zero) => RLe(tp, price)
    /\ (Short(amt) /\ sl # Zero) => RGe(sl, price)

\* the call keeps the levels the position has: a split, or a transaction
\* that carries no exit prices
KeepsExitLevels ==
    \/ Is("handle_split")
    \/ /\ Is("update")
       /\ Txn.take_profit_price = None
       /\ Txn.stop_loss_price = None

\* C14: the exit levels of a position are on the protective side of the
\* trade price they were validated against, for the direction the position
\* has, in every reachable state.  Stated for the second operation on a
\* position whose first was a merge that set the levels (they were then
\* passed with that merge's last_sale_price, which is before.last_sale_price)
\* and set them on the protective side: after a successful split or merge
\* without exit prices, they are still on the protective side of that price.
C14_ExitLevelsStayProtective ==
    (/\ nops = 2 /\ Returned /\ KeepsExitLevels
     /\ before.last_sale_date # NoDate
     /\ (before.take_profit_price # Zero \/ before.stop_loss_price # Zero)
     /\ ExitLevelsProtect(before.amount, before.take_profit_price,
                          before.stop_loss_price, before.last_sale_price))
        => ExitLevelsProtect(amount, take_profit_price, stop_loss_price,
                             before.last_sale_price)

\* the last sale price a merge that does not flatten leaves (lines 172-174)
LastSaleMerged ==
    IF before.last_sale_date = NoDate \/ Txn.dt > before.last_sale_date
    THEN Txn.price
    ELSE before.last_sale_price

\* C15: for a transaction that carries exit prices and does not flatten the
\* position, a level that replaces one already set is rejected when it is
\* on the wrong side of the last sale price as this merge leaves it, for the
\* direction of the merged total; a rejected merge leaves amount as it was;
\* an accepted one commits the total and stores each level given rounded to
\* the tick for the direction of the total (take-profit away from the
\* market's side for a long, stop-loss towards it).
C15_ExitPricesSeeMergedPosition ==
    (/\ Is("update") /\ Txn.asset = before.asset
     /\ ~RLt(RAbs(Total), Eps)
     /\ (Txn.take_profit_price # None \/ Txn.stop_loss_price # None))
        => LET tp == Txn.take_profit_price
               sl == Txn.stop_loss_price
               tick == before.asset.tick_size
               tpWrong == /\ tp # None /\ before.take_profit_price # Zero
                          /\ IF Long(Total) THEN RLt(tp, LastSaleMerged)
                                            ELSE RGt(tp, LastSaleMerged)
               slWrong == /\ sl # None /\ before.stop_loss_price # Zero
                          /\ IF Long(Total) THEN RGt(sl, LastSaleMerged)
                                            ELSE RLt(sl, LastSaleMerged)
           IN  IF tpWrong \/ slWrong
               THEN raised = "ValueError" /\ amount = before.amount
               ELSE /\ Returned /\ amount = Total
                    /\ tp # None => take_profit_price =
                           asymmetric_round_price(tp, ~Long(Total), tick)
                    /\ sl # None => stop_loss_price =
                           asymmetric_round_price(sl, Long(Total), tick)

\* a long position reversed to short by a later sale at another price: the
\* levels are accepted against the new price and rounded for a short
C15_Witness ==
    /\ Is("update") /\ Returned
    /\ Long(before.amount) /\ Short(amount)
    /\ before.take_profit_price # Zero /\ before.stop_loss_price # Zero
    /\ before.last_sale_price = Q(10) /\ last_sale_price = Q(20)
    /\ Txn.take_profit_price = Q(5) /\ Txn.stop_loss_price = Q(25)
    /\ take_profit_price = Q(5) /\ stop_loss_price = Q(25)

\* C16: update_exit_prices called with neither amount nor last_sale_price,
\* on a position that has traded, raises when a level given to replace one
\* already set is on the wrong side of the position's last_sale_price for
\* the position's amount; a level not given (None) leaves its field as it
\* was.
C16_DefaultsValidateAgainstPosition ==
    (/\ Is("update_exit_prices")
     /\ call.args[3] = None /\ call.args[4] = None
     /\ before.last_sale_date # NoDate /\ before.amount # Zero)
        => LET tp == call.args[1]
               sl == call.args[2]
               L == before.last_sale_price
               tpWrong == /\ tp # None /\ before.take_profit_price # Zero
                          /\ IF Long(before.amount) THEN RLt(tp, L)
                                                    ELSE RGt(tp, L)
               slWrong == /\ sl # None /\ before.stop_loss_price # Zero
                          /\ IF Long(before.amount) THEN RGt(sl, L)
                                                    ELSE RLt(sl, L)
           IN  /\ (tpWrong \/ slWrong) => raised = "ValueError"
               /\ tp = None => take_profit_price = before.take_profit_price
               /\ sl = None => stop_loss_price = before.stop_loss_price

\* sl, price and tp in the protective order of a position of amt
Bracketed(amt, sl, price, tp) ==
    IF Long(amt) THEN RLe(sl, price) /\ RLe(price, tp)
                 ELSE RGe(sl, price) /\ RGe(price, tp)

\* C17: a successful handle_split leaves each non-zero exit level at the
\* level times ratio to the nearest hundredth and a zero level at zero, and
\* a position that had stop_loss_price, last_sale_price and take_profit_price
\* in protective order (stop <= last <= profit when long, reversed when
\* short) has them in that order after the split.
C17_SplitKeepsProtectiveOrder ==
    (Is("handle_split") /\ Returned) =>
        LET ratio == call.args[2]
            scaled(old, new) ==
                IF old = Zero THEN new = Zero
                ELSE NearestCent(new, RMul(old, ratio))
        IN  /\ scaled(before.take_profit_price, take_profit_price)
            /\ scaled(before.stop_loss_price, stop_loss_price)
            /\ (/\ before.amount # Zero
                /\ before.take_profit_price # Zero
                /\ before.stop_loss_price # Zero
                /\ Bracketed(before.amount, before.stop_loss_price,
                             before.last_sale_price, before.take_profit_price))
                   => Bracketed(before.amount, stop_loss_price,
                                last_sale_price, take_profit_price)

\* the position before the call holds a residue, under 1e-3 shares, at no
\* cost basis
ResidueBefore ==
    /\ RLt(RAbs(before.amount), Eps)
    /\ before.cost_basis = Zero

\* C18: a position whose amount is under 1e-3 in magnitude is flat to every
\* operation: adjust_commission_cost_basis leaves it as it is, with cost
\* basis 0, and a fill of at least 1e-3 shares, of either sign, opens the
\* position at the fill's price.
C18_ResidueIsFlat ==
    /\ (Is("adjust_commission_cost_basis") /\ ResidueBefore) =>
           Unchanged /\ cost_basis = Zero
    /\ (/\ Is("update") /\ Returned /\ ResidueBefore
        /\ ~RLt(RAbs(Txn.amount), Eps) /\ ~RLt(RAbs(Total), Eps))
           => cost_basis = Txn.price

\* C19: a successful update leaves amount at the amount before plus the
\* transaction's, whichever branch it took (flatten, reversal, partial
\* cover, add), so that a run of successful updates leaves the initial
\* amount plus the sum of their amounts in any order; an update that raises
\* leaves amount as it was.
C19_AmountConserved ==
    Is("update") =>
        IF Returned THEN amount = RAdd(before.amount, Txn.amount)
                    ELSE amount = before.amount

\* the second of two merges reverses a long of 4 to a short of 2
C19_Witness ==
    /\ Is("update") /\ Returned /\ nops = 2
    /\ before.amount = Q(4) /\ Txn.amount = Q(-6)
    /\ amount = Q(-2)

\* C20: a successful handle_split leaves an amount of the sign of the amount
\* before, or zero, no larger in magnitude than amount / ratio and less than
\* one share short of it.
C20_SplitCreatesNoExposure ==
    (Is("handle_split") /\ Returned) =>
        LET raw == RAbs(RDiv(before.amount, call.args[2]))
            removed == RAdd(raw, RNeg(RAbs(amount)))
        IN  /\ Long(amount) => Long(before.amount)
            /\ Short(amount) => Short(before.amount)
            /\ RLe(RAbs(amount), raw)
            /\ RLe(Zero, removed) /\ RLt(removed, Q(1))

====
